---- MODULE Spec2Model ----
(***************************************************************************)
(* Model of the slide overflow-detection tools:                            *)
(*   render_slides.py  calc_dpi_via_ooxml, calc_dpi_via_pdf,               *)
(*                     convert_to_pdf, rasterize                           *)
(*   slides_test.py    px_to_emu, enlarge_deck, main                       *)
(*                                                                         *)
(* Text is modelled as a sequence of one-character strings, so that the    *)
(* regular expression of calc_dpi_via_pdf and the file-name parsing of     *)
(* rasterize are computed, not assumed.  Python's float quotients are      *)
(* modelled as exact rationals <<numerator, denominator>>; the two differ  *)
(* only where an exact quotient is a half-integer whose operands are not   *)
(* representable in binary, and the inputs below avoid those.              *)
(***************************************************************************)
EXTENDS Integers, Sequences, FiniteSets, TLC

VARIABLES
    op,            \* the function being executed
    pc,            \* its position
    sldSz,         \* <p:sldSz> of ppt/presentation.xml: [cx, cy], or NoSldSz
    max_w_px,      \* pixel budget, width
    max_h_px,      \* pixel budget, height
    info,          \* the dict returned by pdfinfo_from_path
    deck,          \* physical page size of the deck, in 1/100 pt
    dpi_ooxml,     \* outcome of calc_dpi_via_ooxml
    dpi_pdf,       \* outcome of calc_dpi_via_pdf
    result,        \* outcome of rasterize
    pad_px,        \* --pad_px
    pad_emu,       \* px_to_emu(pad_px, dpi)
    prs,           \* the presentation stored at src
    enlarged,      \* the presentation saved to dst
    pad_ratio,     \* <<pad_ratio_w, pad_ratio_h>>, each a rational
    scratch,       \* the temporary directories that exist
    convert_tmp,   \* the files inside convert_tmp_dir
    cmdLog,        \* the soffice commands run so far: <<command, output written>>
    pdf_path,      \* value returned by convert_to_pdf
    pages,         \* number of pages of the PDF
    threadOf,      \* the pdftoppm worker that renders each page
    out_dir,       \* files of out_dir: base name -> page shown
    paths_raw,     \* list returned by convert_from_path
    slides,        \* list of (slide_num, dst_path)
    final_paths,   \* list returned by rasterize
    dpi,           \* argument of calc_tol and inspect_images
    tol,           \* per-channel tolerance
    max_mismatch,  \* ceiling of _is_clean, a rational
    img_paths,     \* frames handed to inspect_images
    idx,           \* index of the frame last inspected
    img,           \* the image last opened
    failures,      \* list built by inspect_images
    report         \* what main printed: <<verdict, paths listed>>

vars == <<op, pc, deck, sldSz, max_w_px, max_h_px, info, dpi_ooxml, dpi_pdf,
          result, pad_px, pad_emu,
          prs, enlarged, pad_ratio, scratch, convert_tmp, cmdLog, pdf_path, pages, threadOf,
          out_dir, paths_raw, slides, final_paths, dpi, tol, max_mismatch,
          img_paths, idx, img, failures, report>>

inspectVars == <<dpi, tol, max_mismatch, img_paths, idx, img, failures, report>>
inputVars == <<deck, sldSz, max_w_px, max_h_px, info>>
padVars == <<pad_px, pad_emu, prs, enlarged, pad_ratio>>
convertVars == <<scratch, convert_tmp, cmdLog, pdf_path>>
renderVars == <<pages, threadOf, out_dir, paths_raw, slides, final_paths>>

----------------------------------------------------------------------------
(* Bounds *)

MaxPages == 3
MaxThreads == 2
MaxShapes == 2
MaxDpi == 320

----------------------------------------------------------------------------
(* Program constants *)

EMU_PER_INCH == 914400
PTS_PER_INCH == 72
PAD_PX == 100

----------------------------------------------------------------------------
(* Text *)

Digits == <<"0", "1", "2", "3", "4", "5", "6", "7", "8", "9">>

IsDigit(c) == \E d \in 1..10 : Digits[d] = c

DigitVal(c) == (CHOOSE d \in 1..10 : Digits[d] = c) - 1

IsSpace(c) == c = " "

\* int("0076") = 76
RECURSIVE ParseInt(_)
ParseInt(ds) ==
    IF ds = <<>> THEN 0
    ELSE 10 * ParseInt(SubSeq(ds, 1, Len(ds) - 1)) + DigitVal(ds[Len(ds)])

\* str(76) = "76"
RECURSIVE Str(_)
Str(n) ==
    IF n < 10 THEN <<Digits[n + 1]>>
    ELSE Str(n \div 10) \o <<Digits[(n % 10) + 1]>>

\* first position >= i of s that does not hold a character of the class
RECURSIVE SkipDigits(_, _)
SkipDigits(s, i) ==
    IF i <= Len(s) /\ IsDigit(s[i]) THEN SkipDigits(s, i + 1) ELSE i

RECURSIVE SkipSpaces(_, _)
SkipSpaces(s, i) ==
    IF i <= Len(s) /\ IsSpace(s[i]) THEN SkipSpaces(s, i + 1) ELSE i

HasAt(s, i, lit) ==
    /\ i + Len(lit) - 1 <= Len(s)
    /\ SubSeq(s, i, i + Len(lit) - 1) = lit

Contains(s, lit) == \E i \in 1..Len(s) : HasAt(s, i, lit)

----------------------------------------------------------------------------
(* Rationals and rounding *)

\* Python 3 round(n / d) for d > 0: nearest integer, ties to the even one
Round(n, d) ==
    LET q == n \div d
        r == n % d
    IN  IF 2 * r < d THEN q
        ELSE IF 2 * r > d THEN q + 1
        ELSE IF q % 2 = 0 THEN q ELSE q + 1

RECURSIVE Gcd(_, _)
Gcd(a, b) == IF b = 0 THEN a ELSE Gcd(b, a % b)

\* the quotient a / b in lowest terms, b > 0, a >= 0
Quot(a, b) == LET g == Gcd(a, b) IN <<a \div g, b \div g>>

\* x < y for non-negative rationals with positive denominators, by their
\* continued fractions (no product is formed)
RECURSIVE Less(_, _)
Less(x, y) ==
    LET qx == x[1] \div x[2]
        qy == y[1] \div y[2]
        rx == x[1] % x[2]
        ry == y[1] % y[2]
    IN  IF qx # qy THEN qx < qy
        ELSE IF rx = 0 THEN ry > 0
        ELSE IF ry = 0 THEN FALSE
        ELSE Less(<<y[2], ry>>, <<x[2], rx>>)

Min(x, y) == IF Less(y, x) THEN y ELSE x

\* px / inches, for px >= 0 and inches = <<n, d>> > 0
PerInch(px, inches) ==
    LET g == Gcd(px, inches[1])
    IN  <<(px \div g) * inches[2], inches[1] \div g>>

----------------------------------------------------------------------------
(* Outcomes of a call *)

NoResult == [kind |-> "none", value |-> 0]
Return(v) == [kind |-> "return", value |-> v]
Raise(msg) == [kind |-> "raise", value |-> msg]

----------------------------------------------------------------------------
(* render_slides.calc_dpi_via_ooxml *)

NoSldSz == [cx |-> -1, cy |-> -1, present |-> FALSE]

\* round(min(max_w_px / width_in, max_h_px / height_in))
DpiOf(width_in, height_in, w_px, h_px) ==
    LET m == Min(PerInch(w_px, width_in), PerInch(h_px, height_in))
    IN  Round(m[1], m[2])

calc_dpi_via_ooxml(sld_sz, w_px, h_px) ==
    IF ~sld_sz.present
    THEN Raise("Slide size not found in presentation.xml")
    ELSE IF sld_sz.cx <= 0 \/ sld_sz.cy <= 0
    THEN Raise("Invalid slide size values in presentation.xml")
    ELSE Return(DpiOf(Quot(sld_sz.cx, EMU_PER_INCH),
                      Quot(sld_sz.cy, EMU_PER_INCH), w_px, h_px))

----------------------------------------------------------------------------
(* render_slides.calc_dpi_via_pdf, from the pdfinfo dict on *)

UpperCase == <<"A", "B", "C", "D", "E", "F", "G", "H", "I", "J", "K", "L", "M",
               "N", "O", "P", "Q", "R", "S", "T", "U", "V", "W", "X", "Y", "Z">>
LowerCase == <<"a", "b", "c", "d", "e", "f", "g", "h", "i", "j", "k", "l", "m",
               "n", "o", "p", "q", "r", "s", "t", "u", "v", "w", "x", "y", "z">>

\* str.lower()
Lower(s) ==
    [i \in 1..Len(s) |->
        IF \E u \in 1..26 : UpperCase[u] = s[i]
        THEN LowerCase[CHOOSE u \in 1..26 : UpperCase[u] = s[i]]
        ELSE s[i]]

KeyPageSize == <<"P", "a", "g", "e", " ", "s", "i", "z", "e">>
LitSize == <<"s", "i", "z", "e">>
LitPts == <<"p", "t", "s">>
LitX == <<"x">>

StrVal(s) == [type |-> "str", v |-> s]
IntVal(n) == [type |-> "int", v |-> n]
None == [type |-> "none", v |-> 0]

\* `not v` for the values above
Falsy(v) ==
    \/ v.type = "none"
    \/ v.type = "str" /\ v.v = <<>>
    \/ v.type = "int" /\ v.v = 0

\* dict.get(key): the dict is a list of <<key, value>> with distinct keys
DictGet(d, key) ==
    IF \E i \in 1..Len(d) : d[i][1] = key
    THEN d[CHOOSE i \in 1..Len(d) : d[i][1] = key][2]
    ELSE None

\* the loop of lines 49-52: first item whose key holds "size" and whose
\* string value holds "pts"
SizeLike(item) ==
    /\ item[2].type = "str"
    /\ Contains(Lower(item[1]), LitSize)
    /\ Contains(item[2].v, LitPts)

FirstSizeLike(d) ==
    IF \E i \in 1..Len(d) : SizeLike(d[i])
    THEN d[CHOOSE i \in 1..Len(d) :
              SizeLike(d[i]) /\ \A j \in 1..(i - 1) : ~SizeLike(d[j])][2]
    ELSE None

SizeVal(d) ==
    LET v == DictGet(d, KeyPageSize)
    IN  IF Falsy(v)
        THEN (IF FirstSizeLike(d).type = "none" THEN v ELSE FirstSizeLike(d))
        ELSE v

\* re.match of (\d+)\s*x\s*(\d+)\s*pts at position i: the groups, or <<>>.
\* \d+ and \s* are greedy and what follows each can match neither a digit
\* nor a space, so only the maximal runs can lead to a match.
MatchAt(s, i) ==
    LET e1 == SkipDigits(s, i)
        x == SkipSpaces(s, e1)
        b2 == SkipSpaces(s, x + 1)
        e2 == SkipDigits(s, b2)
        p == SkipSpaces(s, e2)
    IN  IF /\ e1 > i
           /\ HasAt(s, x, LitX)
           /\ e2 > b2
           /\ HasAt(s, p, LitPts)
        THEN <<SubSeq(s, i, e1 - 1), SubSeq(s, b2, e2 - 1)>>
        ELSE <<>>

\* re.search: the match at the leftmost position that has one
Search(s) ==
    IF \E i \in 1..Len(s) : MatchAt(s, i) # <<>>
    THEN MatchAt(s, CHOOSE i \in 1..Len(s) :
                        /\ MatchAt(s, i) # <<>>
                        /\ \A j \in 1..(i - 1) : MatchAt(s, j) = <<>>)
    ELSE <<>>

PageSizeDpi(d, w_px, h_px) ==
    LET size_val == SizeVal(d)
    IN  IF size_val.type # "str"
        THEN Raise("Failed to read PDF page size for DPI computation.")
        ELSE LET m == Search(size_val.v)
             IN  IF m = <<>>
                 THEN Raise("Unrecognized PDF page size format.")
                 ELSE LET width_pts == ParseInt(m[1])
                          height_pts == ParseInt(m[2])
                      IN  IF width_pts <= 0 \/ height_pts <= 0
                          THEN Raise("Invalid PDF page size values.")
                          ELSE Return(DpiOf(Quot(width_pts, PTS_PER_INCH),
                                            Quot(height_pts, PTS_PER_INCH),
                                            w_px, h_px))

----------------------------------------------------------------------------
(* Inputs of the DPI functions *)

\* pdfinfo prints a length with printf("%g"): 95976 -> "959.76"
FormatG(cp) ==
    LET whole == Str(cp \div 100)
        frac == cp % 100
    IN  IF frac = 0 THEN whole
        ELSE IF frac % 10 = 0 THEN whole \o <<".", Digits[(frac \div 10) + 1]>>
        ELSE whole \o <<".", Digits[(frac \div 10) + 1], Digits[(frac % 10) + 1]>>

\* "<width> x <height> pts"
FormatPageSize(page) ==
    FormatG(page[1]) \o <<" ", "x", " ">> \o FormatG(page[2]) \o <<" ">> \o LitPts

KeyPages == <<"P", "a", "g", "e", "s">>
KeyPage1Size == <<"P", "a", "g", "e", " ", "1", " ", "s", "i", "z", "e">>
KeyFileSize == <<"F", "i", "l", "e", " ", "s", "i", "z", "e">>
LitBytes == <<"1", "2", " ", "b", "y", "t", "e", "s">>

\* the dicts pdfinfo_from_path can return for a PDF of the given page size
InfoDicts(page) ==
    { <<<<KeyPages, IntVal(1)>>, <<KeyPageSize, StrVal(FormatPageSize(page))>>,
        <<KeyFileSize, StrVal(LitBytes)>>>>,
      <<<<KeyPages, IntVal(1)>>, <<KeyFileSize, StrVal(LitBytes)>>,
        <<KeyPage1Size, StrVal(FormatPageSize(page))>>>>,
      <<<<KeyPages, IntVal(1)>>, <<KeyFileSize, StrVal(LitBytes)>>>>,
      <<<<KeyPageSize, StrVal(FormatG(page[1]) \o <<" ", "x", " ">>
                              \o FormatG(page[2]))>>>> }

\* page sizes <<width, height>> in 1/100 pt
PageSizes ==
    { <<72000, 36000>>, <<96000, 54000>>, <<50400, 36000>>,
      <<95976, 54000>>, <<72050, 54000>>, <<59528, 84189>> }

EMU_PER_CENTIPOINT == EMU_PER_INCH \div (PTS_PER_INCH * 100)

\* the <p:sldSz> a deck of the given page size can carry
SldSzs(page) ==
    { [cx |-> page[1] * EMU_PER_CENTIPOINT, cy |-> page[2] * EMU_PER_CENTIPOINT,
       present |-> TRUE],
      [cx |-> 0, cy |-> page[2] * EMU_PER_CENTIPOINT, present |-> TRUE],
      NoSldSz }

BudgetWidths == {5, 15, 1000, 1600}
BudgetHeights == {10, 900}

----------------------------------------------------------------------------
(* slides_test.px_to_emu and slides_test.enlarge_deck *)

\* Emu(int(px * EMU_PER_INCH // dpi)), dpi > 0
px_to_emu(px, d) == (px * EMU_PER_INCH) \div d

\* the two children every <p:spTree> starts with
NvGrpSpPr ==
    [tag |-> "nvGrpSpPr", id |-> 0, left |-> 0, top |-> 0, width |-> 0, height |-> 0]
GrpSpPr ==
    [tag |-> "grpSpPr", id |-> 0, left |-> 0, top |-> 0, width |-> 0, height |-> 0]

IsMandatory(node) == node.tag \in {"nvGrpSpPr", "grpSpPr"}
IsPad(node) == node.tag \in {"left", "right", "top", "bottom"}

Rect(tag, left, top, width, height) ==
    [tag |-> tag, id |-> 0, left |-> left, top |-> top, width |-> width,
     height |-> height]

\* lines 49-51: every shape moves by pad_emu on both axes
ShiftShapes(sp_tree, pad) ==
    [i \in 1..Len(sp_tree) |->
        IF IsMandatory(sp_tree[i]) THEN sp_tree[i]
        ELSE [sp_tree[i] EXCEPT !.left = @ + pad, !.top = @ + pad]]

\* the right band placed at the old width
Pads_RightAtOldWidth(w1, h1, pad) ==
    << Rect("left", 0, 0, pad, h1),
       Rect("right", w1 - 2 * pad, 0, pad, h1),
       Rect("top", 0, 0, w1, pad),
       Rect("bottom", 0, h1 - pad, w1, pad) >>

\* lines 53-58
Pads(w1, h1, pad) ==
    << Rect("left", 0, 0, pad, h1),
       Rect("right", w1 - pad, 0, pad, h1),
       Rect("top", 0, 0, w1, pad),
       Rect("bottom", 0, h1 - pad, w1, pad) >>

\* sp_tree.insert(index, element), index counted from 0
InsertAt(sp_tree, index, element) ==
    LET k == IF index > Len(sp_tree) THEN Len(sp_tree) ELSE index
    IN  SubSeq(sp_tree, 1, k) \o <<element>> \o SubSeq(sp_tree, k + 1, Len(sp_tree))

\* sp_tree.remove(element)
Remove(sp_tree, element) ==
    LET i == CHOOSE j \in 1..Len(sp_tree) :
                 /\ sp_tree[j] = element
                 /\ \A k \in 1..(j - 1) : sp_tree[k] # element
    IN  SubSeq(sp_tree, 1, i - 1) \o SubSeq(sp_tree, i + 1, Len(sp_tree))

\* the rectangle left where add_shape put it
SendBehind_NotMoved(sp_tree, pad_shape) == Append(sp_tree, pad_shape)

\* lines 63-72 for one pad: add_shape appends the rectangle, which is then
\* moved to index 2
SendBehind(sp_tree, pad_shape) ==
    InsertAt(Remove(Append(sp_tree, pad_shape), pad_shape), 2, pad_shape)

RECURSIVE AddPads(_, _)
AddPads(sp_tree, pads) ==
    IF pads = <<>> THEN sp_tree
    ELSE AddPads(SendBehind(sp_tree, Head(pads)), Tail(pads))

\* the page grown by the padding once instead of on both sides
enlarge_deck_OneSide(src, pad) ==
    LET w1 == src.slide_width + pad
        h1 == src.slide_height + pad
    IN  [slide_width |-> w1,
         slide_height |-> h1,
         slides |-> [k \in 1..Len(src.slides) |->
                        AddPads(ShiftShapes(src.slides[k], pad), Pads(w1, h1, pad))]]

\* the deck written to dst, whose slide size is the pair returned
enlarge_deck(src, pad) ==
    LET w1 == src.slide_width + 2 * pad
        h1 == src.slide_height + 2 * pad
    IN  [slide_width |-> w1,
         slide_height |-> h1,
         slides |-> [k \in 1..Len(src.slides) |->
                        AddPads(ShiftShapes(src.slides[k], pad), Pads(w1, h1, pad))]]

\* content shapes of the input decks: shape i of a slide
Shape(i) ==
    [Rect("sp", (i - 1) * EMU_PER_INCH, i * EMU_PER_INCH, 2 * EMU_PER_INCH,
          EMU_PER_INCH) EXCEPT !.id = i]

SpTree(n) == <<NvGrpSpPr, GrpSpPr>> \o [i \in 1..n |-> Shape(i)]

\* decks of one or two slides with up to MaxShapes shapes each
Decks(sld_sz) ==
    { [slide_width |-> sld_sz.cx, slide_height |-> sld_sz.cy, slides |-> ss] :
        ss \in { <<SpTree(n)>> : n \in 0..MaxShapes }
               \cup { <<SpTree(n), SpTree(m)>> : n, m \in 0..MaxShapes } }

NoDeck == [slide_width |-> 0, slide_height |-> 0, slides |-> <<>>]

PadPxs == {0, 50, PAD_PX}

----------------------------------------------------------------------------
(* render_slides.rasterize: file names and sorting *)

LitSlide == <<"s", "l", "i", "d", "e">>
LitDash == <<"-">>

RECURSIVE ZeroPad(_, _)
ZeroPad(ds, width) == IF Len(ds) >= width THEN ds ELSE ZeroPad(<<"0">> \o ds, width)

\* base name pdf2image gives the frame of a page: line 182,
\* f'slide{thread_id:04d}-{page_num:02d}'
RawBase(thread_id, page_num) ==
    LitSlide \o ZeroPad(Str(thread_id), 4) \o LitDash \o ZeroPad(Str(page_num), 2)

\* base.split("-")[-1]
LastField(base) ==
    LET dashes == {i \in 1..Len(base) : base[i] = "-"}
        last == IF dashes = {} THEN 0
                ELSE CHOOSE i \in dashes : \A j \in dashes : j <= i
    IN  SubSeq(base, last + 1, Len(base))

\* f"slide-{slide_num}"
DstBase(slide_num) == LitSlide \o LitDash \o Str(slide_num)

\* the frame copied instead of moved
Replace_Copy(dir, src, dst) ==
    [n \in DOMAIN dir \cup {dst} |-> IF n = dst THEN dir[src] ELSE dir[n]]

\* os.replace(src, dst) on the files of a directory
Replace(dir, src, dst) ==
    [n \in (DOMAIN dir \ {src}) \cup {dst} |->
        IF n = dst THEN dir[src] ELSE dir[n]]

\* list.sort(key=lambda t: t[0]): stable, ascending
RECURSIVE InsertSorted(_, _)
InsertSorted(sorted, t) ==
    IF sorted = <<>> THEN <<t>>
    ELSE IF sorted[Len(sorted)][1] <= t[1] THEN Append(sorted, t)
    ELSE Append(InsertSorted(SubSeq(sorted, 1, Len(sorted) - 1), t),
                sorted[Len(sorted)])

\* the list left in the order of the listing
SortByNum_Unsorted(ts) == ts

RECURSIVE SortByNum(_)
SortByNum(ts) ==
    IF ts = <<>> THEN <<>>
    ELSE InsertSorted(SortByNum(SubSeq(ts, 1, Len(ts) - 1)), ts[Len(ts)])

\* all orderings of a finite set
Orderings(S) ==
    {f \in [1..Cardinality(S) -> S] : \A i, j \in 1..Cardinality(S) : f[i] = f[j] => i = j}

EmptyDir == [n \in {} |-> 0]

\* frames a previous call left in out_dir (shown as page 0)
StaleDir == [n \in {DstBase(k) : k \in 1..(MaxPages + 1)} |-> 0]

\* tempfile.TemporaryDirectory: the two nested with-blocks
TemporaryDirectories == {"soffice_profile_", "soffice_convert_"}

\* directories made with mkdtemp, which nothing removes
Cleanup_Never(dirs) == dirs

\* what is left of the directories when their with-blocks are left
Cleanup(dirs) == {}

----------------------------------------------------------------------------
(* slides_test.calc_tol *)

PAD_RGB == <<200, 200, 200>>

\* the divisor of the comment of line 32, "1 at 250 DPI"
calc_tol_Div50(d) ==
    IF d >= 300 THEN 0
    ELSE LET t == Round(300 - d, 50)
             lo == IF t > 1 THEN t ELSE 1
         IN  IF lo < 10 THEN lo ELSE 10

\* lines 28-34
calc_tol(d) ==
    IF d >= 300 THEN 0
    ELSE LET t == Round(300 - d, 25)
             lo == IF t > 1 THEN t ELSE 1
         IN  IF lo < 10 THEN lo ELSE 10

\* the ceilings with the two thresholds exchanged
MaxMismatch_Swapped(d) ==
    IF d >= 300 THEN <<2, 100>>
    ELSE IF d >= 200 THEN <<1, 100>>
    ELSE <<3, 100>>

\* lines 109-114: the literals 0.01, 0.02, 0.03 as fractions
MaxMismatch(d) ==
    IF d >= 300 THEN <<1, 100>>
    ELSE IF d >= 200 THEN <<2, 100>>
    ELSE <<3, 100>>

----------------------------------------------------------------------------
(* IEEE-754 doubles in [0, 1], as [int |-> 0 or 1, frac |-> bits after the  *)
(* binary point]: the quotient of line 108 and the literals of lines       *)
(* 110-114 are rounded to 53 significant bits, ties to even                 *)

MANTISSA_BITS == 53

\* zero bits that open the binary expansion of r / d, 0 < r < d
RECURSIVE LeadingZeros(_, _)
LeadingZeros(r, d) == IF 2 * r >= d THEN 0 ELSE 1 + LeadingZeros(2 * r, d)

BITS_PER_STEP == 8

\* what is left of r after n bits of r / d are taken: (r * 2^n) % d
RECURSIVE Remainder(_, _, _)
Remainder(r, d, n) ==
    IF n = 0 THEN r
    ELSE LET k == IF n < BITS_PER_STEP THEN n ELSE BITS_PER_STEP
         IN  Remainder((r * 2^k) % d, d, n - k)

\* <<first n bits of r / d, remainder left>>, 0 <= r < d
Expand(r, d, n) ==
    << [i \in 1..n |-> (2 * Remainder(r, d, i - 1)) \div d],
       Remainder(r, d, n) >>

\* <<bits + 1 in the last place, carry out>>
Increment(bits) ==
    LET zeros == {i \in 1..Len(bits) : bits[i] = 0}
    IN  IF zeros = {} THEN <<[i \in 1..Len(bits) |-> 0], 1>>
        ELSE LET last == CHOOSE i \in zeros : \A j \in zeros : j <= i
             IN  << [i \in 1..Len(bits) |->
                       IF i < last THEN bits[i] ELSE IF i = last THEN 1 ELSE 0],
                    0 >>

\* the double nearest to n / d, 0 <= n <= d
Double(n, d) ==
    IF n = 0 THEN [int |-> 0, frac |-> <<>>]
    ELSE IF n = d THEN [int |-> 1, frac |-> <<>>]
    ELSE LET len == LeadingZeros(n, d) + MANTISSA_BITS
             e == Expand(n, d, len)
             up == \/ 2 * e[2] > d
                   \/ 2 * e[2] = d /\ e[1][len] = 1
             inc == Increment(e[1])
         IN  IF up THEN [int |-> inc[2], frac |-> inc[1]]
             ELSE [int |-> 0, frac |-> e[1]]

BitAt(x, i) == IF i <= Len(x.frac) THEN x.frac[i] ELSE 0

\* the bits of 1 - x, 0 < x < 1, written with len bits
Complement(x, len) ==
    LET ones == {i \in 1..Len(x.frac) : x.frac[i] = 1}
        last == CHOOSE i \in ones : \A j \in ones : j <= i
    IN  [i \in 1..len |-> IF i < last THEN 1 - BitAt(x, i) ELSE BitAt(x, i)]

\* x + y >= 1 in exact arithmetic, 0 <= y < 1
SumAtLeastOne(x, y) ==
    IF x.int = 1 THEN TRUE
    ELSE IF \A i \in 1..Len(x.frac) : x.frac[i] = 0 THEN FALSE
    ELSE LET len == IF Len(x.frac) > Len(y.frac) THEN Len(x.frac) ELSE Len(y.frac)
             rest == Complement(x, len)
             differ == {i \in 1..len : BitAt(y, i) # rest[i]}
         IN  \/ differ = {}
             \/ BitAt(y, CHOOSE i \in differ : \A j \in differ : i <= j) = 1

\* 1.0 - x <= c for doubles x in [0, 1] and c < 1/2.  For x >= 1/2 the
\* difference is exact, so the test is x + c >= 1; for x < 1/2 the
\* difference exceeds 1/2.
OneMinusAtMost(x, c) ==
    IF x.int = 0 /\ BitAt(x, 1) = 0 THEN FALSE ELSE SumAtLeastOne(x, c)

----------------------------------------------------------------------------
(* slides_test.inspect_images *)

\* an image: w x h pixels of PAD_RGB, but for a box [x0, x1) x [y0, y1) of
\* colour rgb
Image(w, h, box, rgb) == [w |-> w, h |-> h, box |-> box, rgb |-> rgb]

NoImage == Image(0, 0, <<0, 0, 0, 0>>, PAD_RGB)

Pixel(image, x, y) ==
    IF /\ image.box[1] <= x /\ x < image.box[3]
       /\ image.box[2] <= y /\ y < image.box[4]
    THEN image.rgb
    ELSE PAD_RGB

\* a[start:stop] on an axis of n elements: the indexes selected
SliceIndex(i, n) ==
    IF i < 0 THEN (IF i + n < 0 THEN 0 ELSE i + n)
    ELSE IF i > n THEN n ELSE i

Slice(start, stop, n) ==
    {k \in 0..(n - 1) : SliceIndex(start, n) <= k /\ k < SliceIndex(stop, n)}

\* int(w * pad_ratio) - 1, lines 97-98; the product is taken exactly
PadPixels(n, ratio) ==
    LET q == Quot(ratio[1], ratio[2])
    IN  ((n * q[1]) \div q[2]) - 1

\* lines 100-103: the pixels <<x, y>> of the four margins
LeftMargin(image, pad_x) == Slice(0, pad_x, image.w) \X (0..(image.h - 1))
RightMargin(image, pad_x) ==
    Slice(image.w - pad_x, image.w, image.w) \X (0..(image.h - 1))
TopMargin(image, pad_y) == (0..(image.w - 1)) \X Slice(0, pad_y, image.h)
BottomMargin(image, pad_y) ==
    (0..(image.w - 1)) \X Slice(image.h - pad_y, image.h, image.h)

Abs(n) == IF n < 0 THEN -n ELSE n

\* lines 106-107
Matches(rgb, t) == \A c \in 1..3 : Abs(rgb[c] - PAD_RGB[c]) <= t

MatchCount(image, margin, t) ==
    Cardinality({p \in margin : Matches(Pixel(image, p[1], p[2]), t)})

\* lines 105-115: _is_clean; the division by matches.size raises on an
\* empty margin
is_clean(image, margin, t, d) ==
    IF margin = {} THEN "ZeroDivisionError"
    ELSE LET size == Cardinality(margin)
             matched == Double(MatchCount(image, margin, t), size)
             ceiling == Double(MaxMismatch(d)[1], MaxMismatch(d)[2])
         IN  IF OneMinusAtMost(matched, ceiling) THEN "clean" ELSE "dirty"

\* lines 117-123: the four tests joined by `and`, left to right; the first
\* that is not clean decides
RECURSIVE FirstNotClean(_)
FirstNotClean(verdicts) ==
    IF verdicts = <<>> THEN "clean"
    ELSE IF Head(verdicts) # "clean" THEN Head(verdicts)
    ELSE FirstNotClean(Tail(verdicts))

Margins(image, ratios) ==
    LET pad_x == PadPixels(image.w, ratios[1])
        pad_y == PadPixels(image.h, ratios[2])
    IN  << LeftMargin(image, pad_x), RightMargin(image, pad_x),
           TopMargin(image, pad_y), BottomMargin(image, pad_y) >>

InspectImage(image, ratios, t, d) ==
    FirstNotClean([b \in 1..4 |-> is_clean(image, Margins(image, ratios)[b], t, d)])

\* img_paths[i], i counted from 0 and from the end when negative
PyIndex(list, i) == IF i < 0 THEN list[Len(list) + i + 1] ELSE list[i + 1]

\* the frames counted from 0
FrameIndex_FromZero(inspected) == inspected

\* enumerate(paths, start=1), line 90: the index of the frame that follows
\* the frames already inspected
FrameIndex(inspected) == inspected + 1

BLACK == <<0, 0, 0>>
NEAR_PAD == <<202, 200, 198>>

\* the images a frame of w x h pixels can hold: nothing but padding; one
\* and two pixels at the left edge; a bar from near the left edge to the
\* centre, in black and within two levels of the padding colour; a bar at
\* the centre
FrameImages(w, h) ==
    { Image(w, h, <<0, 0, 0, 0>>, BLACK),
      Image(w, h, <<0, h \div 2, 1, h \div 2 + 1>>, BLACK),
      Image(w, h, <<0, h \div 2, 1, h \div 2 + 2>>, BLACK),
      Image(w, h, <<2, h \div 2, w \div 2, h \div 2 + 1>>, BLACK),
      Image(w, h, <<2, h \div 2, w \div 2, h \div 2 + 1>>, NEAR_PAD),
      Image(w, h, <<w \div 2 - 1, h \div 2, w \div 2 + 1, h \div 2 + 1>>, BLACK) }

\* pixels of a page of the given length in EMU rendered at d DPI
FramePixels(emu, d) == (emu * d) \div EMU_PER_INCH

----------------------------------------------------------------------------
(* Initial states: one call of the DPI functions on a deck, one call of    *)
(* rasterize, or one run of slides_test.main up to the padded deck         *)

Idle ==
    /\ pc = "start"
    /\ dpi_ooxml = NoResult
    /\ dpi_pdf = NoResult
    /\ result = NoResult
    /\ pad_emu = 0
    /\ enlarged = NoDeck
    /\ pad_ratio = <<>>
    /\ scratch = {}
    /\ convert_tmp = {}
    /\ cmdLog = <<>>
    /\ pdf_path = ""
    /\ threadOf = <<>>
    /\ paths_raw = <<>>
    /\ slides = <<>>
    /\ final_paths = <<>>
    /\ tol = 0
    /\ max_mismatch = <<0, 1>>
    /\ img_paths = <<>>
    /\ idx = 0
    /\ img = NoImage
    /\ failures = <<>>
    /\ report = <<"none", <<>>>>

InitDpi ==
    /\ dpi = 0
    /\ op = "dpi"
    /\ deck \in PageSizes
    /\ sldSz \in SldSzs(deck)
    /\ info \in InfoDicts(deck)
    /\ max_w_px \in BudgetWidths
    /\ max_h_px \in BudgetHeights
    /\ pad_px = 0
    /\ prs = NoDeck
    /\ pages = 1
    /\ out_dir = EmptyDir
    /\ Idle

InitRasterize ==
    /\ dpi = 0
    /\ op = "rasterize"
    /\ deck = <<72000, 36000>>
    /\ sldSz = NoSldSz
    /\ info = <<>>
    /\ max_w_px = 1600
    /\ max_h_px = 900
    /\ pad_px = 0
    /\ prs = NoDeck
    /\ pages \in 0..MaxPages
    /\ out_dir \in {EmptyDir, StaleDir}
    /\ Idle

InitMain ==
    /\ dpi = 0
    /\ op = "main"
    /\ deck \in PageSizes
    /\ sldSz \in {z \in SldSzs(deck) : z.present /\ z.cx > 0}
    /\ info = <<>>
    /\ max_w_px \in BudgetWidths
    /\ max_h_px \in BudgetHeights
    /\ pad_px \in PadPxs
    /\ prs \in Decks(sldSz)
    /\ pages = 0
    /\ out_dir = EmptyDir
    /\ Idle

\* decks of 0.08in x 0.02in and 0.08in x (0.08/3)in, page size in 1/100 pt,
\* with the budget and padding of a run: <<page, max_w_px, max_h_px, pad_px>>.
\* The DPI is 300, 250 or 150 and every length in pixels is a whole number.
SmallRuns ==
    { <<<<576, 192>>, 24, 8, 6>>,
      <<<<576, 144>>, 20, 5, 5>>,
      <<<<576, 144>>, 12, 3, 6>>,
      <<<<576, 192>>, 24, 8, 0>>,
      <<<<576, 192>>, 24, 8, 1>> }

\* main on a small deck of one or two slides, each rendered to a frame
InitMainFrames ==
    /\ dpi = 0
    /\ op = "main"
    /\ \E run \in SmallRuns :
          /\ deck = run[1]
          /\ max_w_px = run[2]
          /\ max_h_px = run[3]
          /\ pad_px = run[4]
    /\ sldSz = [cx |-> deck[1] * EMU_PER_CENTIPOINT,
                cy |-> deck[2] * EMU_PER_CENTIPOINT, present |-> TRUE]
    /\ info = <<>>
    /\ prs \in { [slide_width |-> sldSz.cx, slide_height |-> sldSz.cy,
                   slides |-> ss] : ss \in {<<SpTree(0)>>, <<SpTree(0), SpTree(0)>>} }
    /\ pages = Len(prs.slides)
    /\ out_dir = EmptyDir
    /\ Idle

\* calc_tol and the ceiling of _is_clean applied to one DPI
DpiValues == 0..MaxDpi

InitTol ==
    /\ op = "tol"
    /\ dpi \in DpiValues
    /\ deck = <<72000, 36000>>
    /\ sldSz = NoSldSz
    /\ info = <<>>
    /\ max_w_px = 1600
    /\ max_h_px = 900
    /\ pad_px = 0
    /\ prs = NoDeck
    /\ pages = 0
    /\ out_dir = EmptyDir
    /\ Idle

Init == InitDpi \/ InitRasterize \/ InitMain \/ InitMainFrames \/ InitTol

----------------------------------------------------------------------------
(* The DPI functions called on one deck *)

CalcDpiViaOoxml ==
    /\ op = "dpi"
    /\ pc = "start"
    /\ dpi_ooxml.kind = "none"
    /\ dpi_ooxml' = calc_dpi_via_ooxml(sldSz, max_w_px, max_h_px)
    /\ UNCHANGED <<op, inspectVars, pc, inputVars, dpi_pdf, result, padVars, convertVars,
                   renderVars>>

\* lines 39-40: both temporary directories are created
CalcDpiViaPdfEnter ==
    /\ op = "dpi"
    /\ pc = "start"
    /\ dpi_pdf.kind = "none"
    /\ scratch' = TemporaryDirectories
    /\ pc' = "convert_direct"
    /\ UNCHANGED <<op, inspectVars, inputVars, dpi_ooxml, dpi_pdf, result, padVars,
                   convert_tmp, cmdLog, pdf_path, renderVars>>

\* lines 42-65, after convert_to_pdf has returned: every way out of the
\* with-blocks removes the directories
CalcDpiViaPdfExit ==
    /\ op = "dpi"
    /\ pc = "converted"
    /\ dpi_pdf' =
          IF ~(pdf_path # "" /\ pdf_path \in convert_tmp)
          THEN Raise("Failed to convert input to PDF for DPI computation.")
          ELSE PageSizeDpi(info, max_w_px, max_h_px)
    /\ scratch' = Cleanup(scratch)
    /\ convert_tmp' = {f \in convert_tmp : "soffice_convert_" \in Cleanup(scratch)}
    /\ pc' = "start"
    /\ UNCHANGED <<op, inspectVars, inputVars, dpi_ooxml, result, padVars, cmdLog, pdf_path,
                   renderVars>>

----------------------------------------------------------------------------
(* render_slides.convert_to_pdf; soffice may or may not write its output *)

\* the direct conversion alone: "" is returned when it wrote no PDF
ConvertDirect_NoFallback ==
    /\ pc = "convert_direct"
    /\ \E wrote \in BOOLEAN :
          /\ cmdLog' = Append(cmdLog, <<"pptx->pdf", wrote>>)
          /\ convert_tmp' = IF wrote THEN convert_tmp \cup {"pdf"} ELSE convert_tmp
          /\ pdf_path' = IF "pdf" \in convert_tmp' THEN "pdf" ELSE ""
    /\ pc' = "converted"
    /\ UNCHANGED <<op, inspectVars, inputVars, dpi_ooxml, dpi_pdf, result, padVars, scratch,
                   renderVars>>

\* lines 85-101
ConvertDirect ==
    /\ pc = "convert_direct"
    /\ \E wrote \in BOOLEAN :
          /\ cmdLog' = Append(cmdLog, <<"pptx->pdf", wrote>>)
          /\ convert_tmp' = IF wrote THEN convert_tmp \cup {"pdf"} ELSE convert_tmp
          /\ IF "pdf" \in convert_tmp'
             THEN pdf_path' = "pdf" /\ pc' = "converted"
             ELSE pdf_path' = pdf_path /\ pc' = "convert_odp"
    /\ UNCHANGED <<op, inspectVars, inputVars, dpi_ooxml, dpi_pdf, result, padVars, scratch,
                   renderVars>>

\* lines 106-122 and 140
ConvertOdp ==
    /\ pc = "convert_odp"
    /\ \E wrote \in BOOLEAN :
          /\ cmdLog' = Append(cmdLog, <<"pptx->odp", wrote>>)
          /\ convert_tmp' = IF wrote THEN convert_tmp \cup {"odp"} ELSE convert_tmp
          /\ IF "odp" \in convert_tmp'
             THEN pdf_path' = pdf_path /\ pc' = "convert_odp_pdf"
             ELSE pdf_path' = "" /\ pc' = "converted"
    /\ UNCHANGED <<op, inspectVars, inputVars, dpi_ooxml, dpi_pdf, result, padVars, scratch,
                   renderVars>>

\* lines 124-140
ConvertOdpPdf ==
    /\ pc = "convert_odp_pdf"
    /\ \E wrote \in BOOLEAN :
          /\ cmdLog' = Append(cmdLog, <<"odp->pdf", wrote>>)
          /\ convert_tmp' = IF wrote THEN convert_tmp \cup {"pdf"} ELSE convert_tmp
          /\ pdf_path' = IF "pdf" \in convert_tmp' THEN "pdf" ELSE ""
    /\ pc' = "converted"
    /\ UNCHANGED <<op, inspectVars, inputVars, dpi_ooxml, dpi_pdf, result, padVars, scratch,
                   renderVars>>

----------------------------------------------------------------------------
(* render_slides.rasterize *)

\* lines 149-156; slides_test.main calls rasterize at its line 179
RasterizeEnter ==
    /\ \/ op = "rasterize" /\ pc = "start"
       \/ op = "main" /\ pc = "padded"
    /\ scratch' = TemporaryDirectories
    /\ pc' = "convert_direct"
    /\ UNCHANGED <<op, inspectVars, inputVars, dpi_ooxml, dpi_pdf, result, padVars,
                   convert_tmp, cmdLog, pdf_path, renderVars>>

\* lines 164-167
RasterizeNoPdf ==
    /\ op \in {"rasterize", "main"}
    /\ pc = "converted"
    /\ ~(pdf_path # "" /\ pdf_path \in convert_tmp)
    /\ result' = Raise("Failed to produce PDF for rasterization (direct and ODP fallback).")
    /\ scratch' = Cleanup(scratch)
    /\ convert_tmp' = {f \in convert_tmp : "soffice_convert_" \in Cleanup(scratch)}
    /\ pc' = "done"
    /\ UNCHANGED <<op, inspectVars, inputVars, dpi_ooxml, dpi_pdf, padVars, cmdLog, pdf_path,
                   renderVars>>

\* lines 170-181: convert_from_path hands the pages to its workers
RenderStart ==
    /\ op \in {"rasterize", "main"}
    /\ pc = "converted"
    /\ pdf_path # "" /\ pdf_path \in convert_tmp
    /\ threadOf' \in [1..pages -> 1..MaxThreads]
    /\ pc' = "render"
    /\ UNCHANGED <<op, inspectVars, inputVars, dpi_ooxml, dpi_pdf, result, padVars,
                   convertVars, pages, out_dir, paths_raw, slides, final_paths>>

\* a worker writes the frame of one of its pages
RenderPage(p) ==
    /\ pc = "render"
    /\ RawBase(threadOf[p], p) \notin DOMAIN out_dir
    /\ out_dir' = [n \in DOMAIN out_dir \cup {RawBase(threadOf[p], p)} |->
                      IF n = RawBase(threadOf[p], p) THEN p ELSE out_dir[n]]
    /\ UNCHANGED <<op, inspectVars, pc, inputVars, dpi_ooxml, dpi_pdf, result, padVars,
                   convertVars, pages, threadOf, paths_raw, slides, final_paths>>

RawNames == {RawBase(threadOf[p], p) : p \in 1..pages}

\* convert_from_path raises: the with-blocks are left by the exception
RenderRaise ==
    /\ pc = "render"
    /\ result' = Raise("convert_from_path")
    /\ scratch' = Cleanup(scratch)
    /\ convert_tmp' = {f \in convert_tmp : "soffice_convert_" \in Cleanup(scratch)}
    /\ pc' = "done"
    /\ UNCHANGED <<op, inspectVars, inputVars, dpi_ooxml, dpi_pdf, padVars, cmdLog, pdf_path,
                   renderVars>>

\* convert_from_path returns the frames it finds, in the order of its listing;
\* the with-blocks are left
RenderReturn ==
    /\ pc = "render"
    /\ RawNames \subseteq DOMAIN out_dir
    /\ paths_raw' \in Orderings(RawNames)
    /\ scratch' = Cleanup(scratch)
    /\ convert_tmp' = {f \in convert_tmp : "soffice_convert_" \in Cleanup(scratch)}
    /\ pc' = "rename"
    /\ UNCHANGED <<op, inspectVars, inputVars, dpi_ooxml, dpi_pdf, result, padVars, cmdLog,
                   pdf_path, pages, threadOf, out_dir, slides, final_paths>>

\* lines 184-190, one pass of the loop
RenameFrame ==
    /\ pc = "rename"
    /\ Len(slides) < Len(paths_raw)
    /\ LET src_path == paths_raw[Len(slides) + 1]
           slide_num == ParseInt(LastField(src_path))
           dst_path == DstBase(slide_num)
       IN  /\ out_dir' = Replace(out_dir, src_path, dst_path)
           /\ slides' = Append(slides, <<slide_num, dst_path>>)
    /\ UNCHANGED <<op, inspectVars, pc, inputVars, dpi_ooxml, dpi_pdf, result, padVars,
                   convertVars, pages, threadOf, paths_raw, final_paths>>

\* lines 191-193
RasterizeReturn ==
    /\ pc = "rename"
    /\ Len(slides) = Len(paths_raw)
    /\ final_paths' = [i \in 1..Len(slides) |-> SortByNum(slides)[i][2]]
    /\ result' = Return(final_paths')
    /\ pc' = IF op = "main" THEN "inspect" ELSE "done"
    /\ UNCHANGED <<op, inspectVars, inputVars, dpi_ooxml, dpi_pdf, padVars, convertVars, pages,
                   threadOf, out_dir, paths_raw, slides>>

----------------------------------------------------------------------------
(* slides_test.main, lines 166-176 *)

\* line 168
MainCalcDpi ==
    /\ op = "main"
    /\ pc = "start"
    /\ dpi_ooxml' = calc_dpi_via_ooxml(sldSz, max_w_px, max_h_px)
    /\ IF dpi_ooxml'.kind = "raise"
       THEN result' = dpi_ooxml' /\ pc' = "done"
       ELSE result' = result /\ pc' = "pad"
    /\ UNCHANGED <<op, inspectVars, inputVars, dpi_pdf, padVars, convertVars, renderVars>>

\* line 173; the floor division raises when dpi is 0
MainPxToEmu ==
    /\ op = "main"
    /\ pc = "pad"
    /\ IF dpi_ooxml.value = 0
       THEN /\ result' = Raise("ZeroDivisionError")
            /\ pad_emu' = pad_emu
            /\ pc' = "done"
       ELSE /\ result' = result
            /\ pad_emu' = px_to_emu(pad_px, dpi_ooxml.value)
            /\ pc' = "enlarge"
    /\ UNCHANGED <<op, inspectVars, inputVars, dpi_ooxml, dpi_pdf, pad_px, prs, enlarged,
                   pad_ratio, convertVars, renderVars>>

\* lines 174-176
MainEnlarge ==
    /\ op = "main"
    /\ pc = "enlarge"
    /\ enlarged' = enlarge_deck(prs, pad_emu)
    /\ pad_ratio' = <<<<pad_emu, enlarged'.slide_width>>,
                      <<pad_emu, enlarged'.slide_height>>>>
    /\ pc' = "padded"
    /\ UNCHANGED <<op, inspectVars, inputVars, dpi_ooxml, dpi_pdf, result, pad_px, pad_emu,
                   prs, convertVars, renderVars>>

----------------------------------------------------------------------------
(* slides_test.main, lines 179-192, and slides_test.inspect_images *)

\* lines 179-180 and 86-88: the frames are handed to inspect_images; what
\* rasterize kept in its locals is gone
MainInspect ==
    /\ op = "main"
    /\ pc = "inspect"
    /\ img_paths' = final_paths
    /\ dpi' = dpi_ooxml.value
    /\ tol' = calc_tol(dpi')
    /\ failures' = <<>>
    /\ idx' = 0
    /\ threadOf' = <<>>
    /\ paths_raw' = <<>>
    /\ slides' = <<>>
    /\ pc' = "inspect_loop"
    /\ UNCHANGED <<op, max_mismatch, img, report, inputVars, dpi_ooxml, dpi_pdf,
                   result, padVars, convertVars, pages, out_dir, final_paths>>

\* lines 90-123, one pass of the loop: idx frames have been inspected, the
\* next is opened.  A margin without pixels makes _is_clean divide by zero.
InspectFrame ==
    /\ op = "main"
    /\ pc = "inspect_loop"
    /\ idx < Len(img_paths)
    /\ img' \in FrameImages(FramePixels(enlarged.slide_width, dpi),
                            FramePixels(enlarged.slide_height, dpi))
    /\ idx' = idx + 1
    /\ max_mismatch' = MaxMismatch(dpi)
    /\ LET verdict == InspectImage(img', pad_ratio, tol, dpi)
       IN  /\ failures' = IF verdict = "dirty"
                          THEN Append(failures, FrameIndex(idx))
                          ELSE failures
           /\ IF verdict = "ZeroDivisionError"
              THEN result' = Raise(verdict) /\ pc' = "done"
              ELSE result' = result /\ pc' = pc
    /\ UNCHANGED <<op, dpi, tol, img_paths, report, inputVars, dpi_ooxml, dpi_pdf,
                   padVars, convertVars, renderVars>>

\* lines 125 and 182-192: the list is returned and reported
MainReport ==
    /\ op = "main"
    /\ pc = "inspect_loop"
    /\ idx = Len(img_paths)
    /\ report' = IF failures # <<>>
                 THEN <<"error", [k \in 1..Len(failures) |->
                                    PyIndex(img_paths, failures[k] - 1)]>>
                 ELSE <<"passed", <<>>>>
    /\ pc' = "done"
    /\ UNCHANGED <<op, dpi, tol, max_mismatch, img_paths, idx, img, failures,
                   inputVars, dpi_ooxml, dpi_pdf, result, padVars, convertVars,
                   renderVars>>

----------------------------------------------------------------------------
(* slides_test.calc_tol and the ceiling of _is_clean on their own *)

\* slides_test.py lines 28-34
CalcTol ==
    /\ op = "tol"
    /\ pc = "start"
    /\ tol' = calc_tol(dpi)
    /\ pc' = "ceiling"
    /\ UNCHANGED <<op, dpi, max_mismatch, img_paths, idx, img, failures, report,
                   inputVars, dpi_ooxml, dpi_pdf, result, padVars, convertVars,
                   renderVars>>

\* slides_test.py lines 109-114
IsCleanCeiling ==
    /\ op = "tol"
    /\ pc = "ceiling"
    /\ max_mismatch' = MaxMismatch(dpi)
    /\ pc' = "done"
    /\ UNCHANGED <<op, dpi, tol, img_paths, idx, img, failures, report,
                   inputVars, dpi_ooxml, dpi_pdf, result, padVars, convertVars,
                   renderVars>>

Next ==
    \/ CalcDpiViaOoxml
    \/ CalcDpiViaPdfEnter
    \/ CalcDpiViaPdfExit
    \/ ConvertDirect
    \/ ConvertOdp
    \/ ConvertOdpPdf
    \/ RasterizeEnter
    \/ RasterizeNoPdf
    \/ RenderStart
    \/ \E p \in 1..pages : RenderPage(p)
    \/ RenderRaise
    \/ RenderReturn
    \/ RenameFrame
    \/ RasterizeReturn
    \/ MainCalcDpi
    \/ MainPxToEmu
    \/ MainEnlarge
    \/ MainInspect
    \/ InspectFrame
    \/ MainReport
    \/ CalcTol
    \/ IsCleanCeiling

Spec == Init /\ [][Next]_vars

----------------------------------------------------------------------------
(* Claims on DPI resolution *)

CENTIPOINTS_PER_INCH == PTS_PER_INCH * 100

\* min(budgetWidth / widthInches, budgetHeight / heightInches) for the page
\* size of the deck
BudgetPerInch ==
    Min(<<max_w_px * CENTIPOINTS_PER_INCH, deck[1]>>,
        <<max_h_px * CENTIPOINTS_PER_INCH, deck[2]>>)

\* v is an integer nearest to the rational q
Nearest(v, q) ==
    /\ 2 * v * q[2] - 2 * q[1] <= q[2]
    /\ 2 * q[1] - 2 * v * q[2] <= q[2]

IsFormulaDpi(r) ==
    /\ Nearest(r.value, BudgetPerInch)
    /\ (deck = <<72000, 36000>> /\ max_w_px = 1600 /\ max_h_px = 900)
          => r.value = 160

\* C1: whenever calc_dpi_via_ooxml or calc_dpi_via_pdf returns, the value is
\* round(min(budgetWidth / widthInches, budgetHeight / heightInches)) for the
\* page size of the deck; a 10in x 5in page with budget 1600 x 900 gives 160.
C1_DpiFormula ==
    /\ dpi_ooxml.kind = "return" => IsFormulaDpi(dpi_ooxml)
    /\ dpi_pdf.kind = "return" => IsFormulaDpi(dpi_pdf)

\* C2: when the slide size of presentation.xml and the page size reported for
\* the PDF describe the same physical size, both functions return the same
\* DPI for the same budget.
C2_DpiConsistency ==
    (dpi_ooxml.kind = "return" /\ dpi_pdf.kind = "return")
        => dpi_ooxml.value = dpi_pdf.value

\* C3: a DPI that is returned is strictly positive, so that px_to_emu can
\* divide by it.
C3_DpiPositive ==
    /\ dpi_ooxml.kind = "return" => dpi_ooxml.value > 0
    /\ dpi_pdf.kind = "return" => dpi_pdf.value > 0

----------------------------------------------------------------------------
(* Claims on the padded deck *)

Padded == op = "main" /\ pc = "padded"

\* a rational <<n, d>>, d > 0, is below one half
BelowHalf(q) == 2 * q[1] < q[2]

\* C4: the padded page is exactly (w0 + 2t, h0 + 2t), and the ratios main
\* derives, t / newWidth and t / newHeight, are below 0.5.
C4_PaddedSize ==
    Padded =>
        /\ enlarged.slide_width = prs.slide_width + 2 * pad_emu
        /\ enlarged.slide_height = prs.slide_height + 2 * pad_emu
        /\ pad_ratio = <<<<pad_emu, enlarged.slide_width>>,
                         <<pad_emu, enlarged.slide_height>>>>
        /\ BelowHalf(pad_ratio[1])
        /\ BelowHalf(pad_ratio[2])

C4_Witness == Padded /\ pad_emu > 0 /\ enlarged.slide_width > prs.slide_width

PadIndexes(tree) == {i \in 1..Len(tree) : IsPad(tree[i])}
ContentIndexes(tree) == {i \in 1..Len(tree) : tree[i].tag = "sp"}

PadsBehind(before, after) ==
    /\ Len(after) = Len(before) + 4
    /\ IsMandatory(after[1]) /\ IsMandatory(after[2])
    /\ {after[i].tag : i \in PadIndexes(after)} = {"left", "right", "top", "bottom"}
    /\ Cardinality(PadIndexes(after)) = 4
    /\ \A i \in PadIndexes(after) :
          /\ i > 2
          /\ \A j \in ContentIndexes(after) : i < j
    /\ \A i \in 3..Len(before) : after[i + 4].id = before[i].id

\* C5: on every slide the four padding rectangles come after the two
\* mandatory nodes and before every shape the slide had, and those shapes
\* keep their order, whatever their number.
C5_PadsBehind ==
    Padded => \A k \in 1..Len(prs.slides) :
                  PadsBehind(prs.slides[k], enlarged.slides[k])

C5_Witness ==
    /\ Padded
    /\ \E k \in 1..Len(prs.slides) : Len(prs.slides[k]) = 2
    /\ \E k \in 1..Len(prs.slides) : Len(prs.slides[k]) >= 4

InRect(r, x, y) ==
    /\ r.left <= x /\ x < r.left + r.width
    /\ r.top <= y /\ y < r.top + r.height

Covered(tree, x, y) == \E i \in PadIndexes(tree) : InRect(tree[i], x, y)

\* the recentred original canvas [t, newW - t) x [t, newH - t)
InOriginal(x, y) ==
    /\ pad_emu <= x /\ x < enlarged.slide_width - pad_emu
    /\ pad_emu <= y /\ y < enlarged.slide_height - pad_emu

Around(S) == S \cup {c - 1 : c \in S} \cup {c + 1 : c \in S}

\* coordinates at and next to every edge of the canvases and of the bands;
\* between two neighbouring edges coverage cannot change
ProbeX(tree) ==
    {x \in Around({0, pad_emu, enlarged.slide_width - pad_emu, enlarged.slide_width}
                  \cup {tree[i].left : i \in PadIndexes(tree)}
                  \cup {tree[i].left + tree[i].width : i \in PadIndexes(tree)}) :
        0 <= x /\ x < enlarged.slide_width}

ProbeY(tree) ==
    {y \in Around({0, pad_emu, enlarged.slide_height - pad_emu, enlarged.slide_height}
                  \cup {tree[i].top : i \in PadIndexes(tree)}
                  \cup {tree[i].top + tree[i].height : i \in PadIndexes(tree)}) :
        0 <= y /\ y < enlarged.slide_height}

\* C6: for t > 0 the four bands together cover every point of the new canvas
\* outside the recentred original canvas, corners included, and no point
\* inside it.
C6_PadsCoverMargin ==
    (Padded /\ pad_emu > 0) =>
        \A k \in 1..Len(enlarged.slides) :
            \A x \in ProbeX(enlarged.slides[k]), y \in ProbeY(enlarged.slides[k]) :
                Covered(enlarged.slides[k], x, y) <=> ~InOriginal(x, y)

C6_Witness ==
    /\ Padded
    /\ pad_emu > 0
    /\ Covered(enlarged.slides[1], enlarged.slide_width - 1, enlarged.slide_height - 1)
    /\ ~Covered(enlarged.slides[1], pad_emu, pad_emu)

----------------------------------------------------------------------------
(* Claims on rasterize *)

Commands == [i \in 1..Len(cmdLog) |-> cmdLog[i][1]]

IsPrefix(a, b) == Len(a) <= Len(b) /\ a = SubSeq(b, 1, Len(a))

DirectFailed == Len(cmdLog) >= 1 /\ ~cmdLog[1][2]

\* the deck was written as ODP and the ODP as PDF
FallbackSucceeded == Len(cmdLog) = 3 /\ cmdLog[2][2] /\ cmdLog[3][2]

\* the route through ODP was taken and did not end in a PDF
FallbackFailed ==
    \/ Len(cmdLog) = 2 /\ ~cmdLog[2][2]
    \/ Len(cmdLog) = 3 /\ ~cmdLog[3][2]

Rasterized == op = "rasterize" /\ pc = "done"

NoPdfRaised ==
    /\ result.kind = "raise"
    /\ result.value = "Failed to produce PDF for rasterization (direct and ODP fallback)."

RenderRaised == result.kind = "raise" /\ result.value = "convert_from_path"

CanonicalPaths == [k \in 1..pages |-> DstBase(k)]

\* C7: the direct conversion runs first and the route through ODP only
\* after it wrote no PDF; rasterize raises its conversion error exactly when
\* both failed; when only the direct conversion failed, a call that gets
\* through rendering returns all frames in page order.
C7_TwoStageConversion ==
    /\ IsPrefix(Commands, <<"pptx->pdf", "pptx->odp", "odp->pdf">>)
    /\ Len(cmdLog) >= 2 => DirectFailed
    /\ Len(cmdLog) = 3 => cmdLog[2][2]
    /\ Rasterized =>
          /\ NoPdfRaised <=> (DirectFailed /\ FallbackFailed)
          /\ (DirectFailed /\ FallbackSucceeded /\ ~RenderRaised) =>
                 (result.kind = "return" /\ result.value = CanonicalPaths)

C7_Witness ==
    /\ Rasterized
    /\ DirectFailed
    /\ FallbackSucceeded
    /\ result.kind = "return"
    /\ pages >= 2

\* C8: for an N-page deck rasterize returns N paths, the k-th being the
\* frame of page k, whatever the order in which the frames were listed.
C8_FrameOrder ==
    (Rasterized /\ result.kind = "return") =>
        /\ Len(final_paths) = pages
        /\ \A k \in 1..pages :
              /\ ParseInt(LastField(final_paths[k])) = k
              /\ final_paths[k] \in DOMAIN out_dir
              /\ out_dir[final_paths[k]] = k
        /\ \A i, j \in 1..Len(final_paths) : i # j => final_paths[i] # final_paths[j]

\* the listing was out of page order
C8_Witness ==
    /\ Rasterized
    /\ result.kind = "return"
    /\ pages >= 2
    /\ ParseInt(LastField(paths_raw[1])) > ParseInt(LastField(paths_raw[2]))

IsCanonicalName(n) == \E k \in 1..(MaxPages + 1) : n = DstBase(k)

\* C9: whichever worker rendered which page and in whatever order, page k
\* ends at slide-k, no frame keeps a name with a thread id, no two pages
\* share a destination, and the list returned depends on the page count only.
C9_CanonicalFrames ==
    /\ \A i, j \in 1..Len(slides) :
          slides[i][2] = slides[j][2] => paths_raw[i] = paths_raw[j]
    /\ (Rasterized /\ result.kind = "return") =>
          /\ \A n \in DOMAIN out_dir : IsCanonicalName(n)
          /\ \A k \in 1..pages : DstBase(k) \in DOMAIN out_dir /\ out_dir[DstBase(k)] = k
          /\ final_paths = CanonicalPaths

\* two workers shared the pages, and the later page was listed first
C9_Witness ==
    /\ Rasterized
    /\ result.kind = "return"
    /\ pages >= 2
    /\ threadOf[1] # threadOf[2]
    /\ paths_raw[1] # RawBase(threadOf[1], 1)
    /\ DOMAIN out_dir = {DstBase(k) : k \in 1..pages}

\* the calls that have ended
CallEnded ==
    \/ Rasterized
    \/ op = "dpi" /\ pc = "start" /\ dpi_pdf.kind # "none"

\* C10: once rasterize or calc_dpi_via_pdf has ended, by return or by any of
\* its errors, neither temporary directory nor any file in them exists.
C10_ScratchReleased ==
    CallEnded => (scratch = {} /\ convert_tmp = {})

\* the call ended by an error raised while rendering, after a conversion
\* that had written files
C10_Witness ==
    /\ Rasterized
    /\ RenderRaised
    /\ Len(cmdLog) = 3
    /\ scratch = {}

----------------------------------------------------------------------------
(* Claims on the colour tolerance and the mismatch ceiling *)

Clamp(v, lo, hi) == IF v < lo THEN lo ELSE IF v > hi THEN hi ELSE v

TolComputed == op = "tol" /\ pc \in {"ceiling", "done"}

C13_Monotone ==
    (op = "tol" /\ pc = "done") =>
        \A d \in DpiValues :
            d <= dpi =>
                /\ tol <= calc_tol(d)
                /\ ~Less(MaxMismatch(d), max_mismatch)

C13_Witness ==
    /\ op = "tol"
    /\ pc = "done"
    /\ dpi = 300
    /\ tol < calc_tol(299)
    /\ Less(max_mismatch, MaxMismatch(299))

----------------------------------------------------------------------------
(* Claim on the page size read by calc_dpi_via_pdf *)

\* C17: whenever calc_dpi_via_pdf returns for a report "<width> x <height> pts",
\* the width and height it computed the DPI from are the reported width and
\* height of the page, decimal fractions included; otherwise it raises.
C17_ReportedSize ==
    (op = "dpi" /\ dpi_pdf.kind = "return") =>
        LET m == Search(SizeVal(info).v)
        IN  /\ ParseInt(m[1]) * 100 = deck[1]
            /\ ParseInt(m[2]) * 100 = deck[2]

----------------------------------------------------------------------------
(* Claims on the inspection of the frames *)

\* C11: when rendering the padded deck produces no frame, the run ends with a
\* fatal error and never reports that the test passed.
C11_NoFramesIsFatal ==
    ~(op = "main" /\ pc = "done" /\ img_paths = <<>> /\ report[1] = "passed")

\* inspect_images has inspected a frame and has not raised
Inspected == op = "main" /\ dpi_ooxml.kind = "return" /\ idx >= 1 /\ result.kind = "return"

Reported(k) == \E j \in 1..Len(failures) : failures[j] = k

\* the mismatching pixels of the margin exceed the ceiling, as fractions
ExceedsCeiling(margin) ==
    LET size == Cardinality(margin)
        mismatches == size - MatchCount(img, margin, tol)
    IN  mismatches * MaxMismatch(dpi)[2] > MaxMismatch(dpi)[1] * size

\* C14: a margin is clean exactly when its mismatching pixels over its size do
\* not exceed the ceiling of the DPI (0.01 from 300, 0.02 from 200, else 0.03),
\* a fraction equal to the ceiling being clean; a frame is reported exactly
\* when one of its four margins is not clean.
C14_CleanUpToCeiling ==
    (Inspected /\ \A b \in 1..4 : Margins(img, pad_ratio)[b] # {}) =>
        (Reported(idx) <=> \E b \in 1..4 : ExceedsCeiling(Margins(img, pad_ratio)[b]))

\* C15: the list of failures is strictly ascending, holds indexes counted
\* from 1 that are at most the number of frames, holds k exactly when frame k
\* failed, and every index i reported by main has a path img_paths[i - 1].
C15_FailureList ==
    (op = "main" /\ pc \in {"inspect_loop", "done"}) =>
        /\ \A j \in 1..Len(failures) : failures[j] \in 1..Len(img_paths)
        /\ \A j \in 1..Len(failures) : failures[j] <= idx
        /\ \A j \in 1..(Len(failures) - 1) : failures[j] < failures[j + 1]
        /\ Inspected =>
              (Reported(idx) <=> InspectImage(img, pad_ratio, tol, dpi) = "dirty")
        /\ report[1] = "error" =>
              /\ Len(report[2]) = Len(failures)
              /\ \A j \in 1..Len(failures) :
                    /\ report[2][j] = img_paths[failures[j]]
                    /\ ParseInt(LastField(report[2][j])) = failures[j]

C15_Witness ==
    /\ op = "main"
    /\ pc = "done"
    /\ Len(img_paths) = 2
    /\ failures = <<2>>
    /\ report = <<"error", <<DstBase(2)>>>>

\* C16: when floor(dimension * ratio) - 1 is not positive for an axis, the
\* margins of that axis are skipped: the frame is not reported for them and
\* no error is raised.
C16_EmptyMarginsSkipped ==
    ( /\ op = "main"
      /\ dpi_ooxml.kind = "return"
      /\ idx >= 1
      /\ PadPixels(img.w, pad_ratio[1]) <= 0
      /\ PadPixels(img.h, pad_ratio[2]) <= 0 ) =>
        /\ result.kind = "return"
        /\ ~Reported(idx)

====
